---------------------------- MODULE Spec2Model ----------------------------
(***************************************************************************)
(* ingenium.sql: the query engine of server.js (the second, current copy   *)
(* of the module, lines 375-792) and the connection pool of _pool.js.      *)
(*                                                                         *)
(* SQL texts are sequences of one-character strings.  A parameter value    *)
(* of a call is a record: [kind |-> "null"], [kind |-> "list", list |-> s] *)
(* or [kind |-> "map", map |-> f] with f a function from names (sequences  *)
(* of word characters) to values.                                          *)
(***************************************************************************)
EXTENDS Integers, Sequences, FiniteSets, TLC

VARIABLES
    sqlText,          \* processParameters: the argument `query`
    parameters,       \* processParameters: the argument `parameters`
    bound,            \* processParameters: the value returned, or NoValue
    isReady,          \* ConnectionPool.isReady
    driverPool,       \* ConnectionPool.pool: "null", "open" (createPool) or "ended" (pool.end)
    initPc,           \* initialize(): "scheduled", "probing", "done" or "failed"
    closePc,          \* close(): "idle", "ending" or "done"
    checkedOut,       \* the connections the driver pool has handed out and not got back
    calls,            \* the calls of the exported operations, by caller slot
    preparedQueries,  \* the Map preparedQueries: query id -> stored text
    queryIdCounter,   \* queryIdCounter
    issued,           \* the prepareQuery calls made, in order: the id returned and the text passed
    stats,            \* ConnectionPool.stats
    emitted,          \* the events pool.execute has emitted, in order
    closed,           \* whether a close() call has completed
    classified,       \* the last classification made: text, type, route, warning
    queryTypeCache,   \* the classification cache: key -> statement type
    config,           \* ConnectionPool.config
    flights,          \* the calls made of pool.execute itself, by slot
    waiter            \* the call of ig.sql.AwaitReady: its locals and its position

bindVars == <<sqlText, parameters, bound>>

statVars == <<stats, emitted>>

classVars == <<classified, queryTypeCache>>

engineVars == <<isReady, driverPool, initPc, closePc, checkedOut, calls,
                preparedQueries, queryIdCounter, issued, stats, emitted, closed, config, flights, waiter>>

\* the variables of the pool and of the exported operations
engineState == <<isReady, driverPool, initPc, closePc, checkedOut, calls,
                 preparedQueries, queryIdCounter, issued, stats, emitted, closed>>

vars == <<sqlText, parameters, bound, isReady, driverPool, initPc, closePc,
          checkedOut, calls, preparedQueries, queryIdCounter, issued, stats, emitted, closed,
          classified, queryTypeCache, config, flights, waiter>>

NoValue == [kind |-> "none"]

(***************************************************************************)
(* Bounds of the processParameters inputs.                                 *)
(***************************************************************************)
MaxPieces == 4

\* the letters the inputs use, each with its upper case
LetterPairs ==
    { <<"a", "A">>, <<"b", "B">>, <<"c", "C">>, <<"d", "D">>, <<"e", "E">>,
      <<"i", "I">>, <<"l", "L">>, <<"n", "N">>, <<"p", "P">>, <<"r", "R">>,
      <<"s", "S">>, <<"t", "T">>, <<"u", "U">> }

\* \w of the regular expressions, restricted to the characters the inputs use
WordChars == { p[1] : p \in LetterPairs } \cup { p[2] : p \in LetterPairs } \cup {"_", "1"}

\* the pieces SQL texts are concatenated from: three named tokens (one a
\* prefix of another), a separator and a positional marker
Pieces == { <<"@", "a">>, <<"@", "b">>, <<"@", "a", "b">>, <<" ">>, <<"?">> }

ParamNames == { <<"a">>, <<"b">>, <<"a", "b">> }

ParamValues == { 1, 2 }

RECURSIVE Concat(_)
Concat(ps) == IF ps = <<>> THEN <<>> ELSE Head(ps) \o Concat(Tail(ps))

SqlTexts == { Concat(ps) : ps \in UNION { [1..n -> Pieces] : n \in 0..MaxPieces } }

NamedMaps == UNION { [ks -> ParamValues] : ks \in SUBSET ParamNames }

ParameterInputs ==
    { [kind |-> "null"] }
    \cup { [kind |-> "list", list |-> l] : l \in { <<>>, <<1>>, <<2, 1>> } }
    \cup { [kind |-> "map", map |-> m] : m \in NamedMaps }

(***************************************************************************)
(* String primitives of server.js:processParameters.                       *)
(***************************************************************************)

\* the end of the run of \w characters of s that starts at position i
RECURSIVE WordEnd(_, _)
WordEnd(s, i) ==
    IF i + 1 <= Len(s) /\ s[i + 1] \in WordChars THEN WordEnd(s, i + 1) ELSE i

\* query.match(/@\w+/g): the matches, left to right, from position i on
RECURSIVE MatchTokens(_, _)
MatchTokens(s, i) ==
    IF i > Len(s) THEN <<>>
    ELSE IF s[i] = "@" /\ i + 1 <= Len(s) /\ s[i + 1] \in WordChars
         THEN <<SubSeq(s, i, WordEnd(s, i + 1))>> \o MatchTokens(s, WordEnd(s, i + 1) + 1)
         ELSE MatchTokens(s, i + 1)

\* whether the literal text t stands in s at position i
MatchesAt(s, t, i) == i + Len(t) - 1 <= Len(s) /\ SubSeq(s, i, i + Len(t) - 1) = t

\* (processedQuery.match(regex) || []).length, regex = /<t>/g with t literal
RECURSIVE CountMatches(_, _, _)
CountMatches(s, t, i) ==
    IF i > Len(s) THEN 0
    ELSE IF MatchesAt(s, t, i) THEN 1 + CountMatches(s, t, i + Len(t))
         ELSE CountMatches(s, t, i + 1)

\* processedQuery.replace(regex, '?')
RECURSIVE ReplaceAll(_, _, _)
ReplaceAll(s, t, i) ==
    IF i > Len(s) THEN <<>>
    ELSE IF MatchesAt(s, t, i) THEN <<"?">> \o ReplaceAll(s, t, i + Len(t))
         ELSE <<s[i]>> \o ReplaceAll(s, t, i + 1)

\* for (let i = 0; i < count; i++) params.push(v)
RECURSIVE Repeat(_, _)
Repeat(v, n) == IF n = 0 THEN <<>> ELSE <<v>> \o Repeat(v, n - 1)

\* paramName.substring(1)
KeyOf(paramName) == Tail(paramName)

\* one iteration of paramNames.forEach without the hasOwnProperty test: a
\* name the object lacks is replaced too and binds undefined
ProcessOneAnyKey(acc, paramName, map) ==
    IF paramName \notin acc.processedParams
    THEN [query |-> ReplaceAll(acc.query, paramName, 1),
          params |-> acc.params \o Repeat(IF KeyOf(paramName) \in DOMAIN map
                                          THEN map[KeyOf(paramName)] ELSE 0,
                                          CountMatches(acc.query, paramName, 1)),
          processedParams |-> acc.processedParams \cup {paramName}]
    ELSE acc

\* one iteration of paramNames.forEach, on the accumulator
\* [query, params, processedParams]
ProcessOne(acc, paramName, map) ==
    IF paramName \notin acc.processedParams /\ KeyOf(paramName) \in DOMAIN map
    THEN [query |-> ReplaceAll(acc.query, paramName, 1),
          params |-> acc.params \o Repeat(map[KeyOf(paramName)],
                                           CountMatches(acc.query, paramName, 1)),
          processedParams |-> acc.processedParams \cup {paramName}]
    ELSE acc

RECURSIVE ForEachParam(_, _, _)
ForEachParam(acc, paramNames, map) ==
    IF paramNames = <<>> THEN acc
    ELSE ForEachParam(ProcessOne(acc, Head(paramNames), map), Tail(paramNames), map)

processParameters(query, params) ==
    IF params.kind = "null" THEN [query |-> query, params |-> <<>>]
    ELSE IF params.kind = "list" THEN [query |-> query, params |-> params.list]
    ELSE LET acc == ForEachParam([query |-> query, params |-> <<>>, processedParams |-> {}],
                                 MatchTokens(query, 1), params.map)
         IN  [query |-> acc.query, params |-> acc.params]

(***************************************************************************)
(* Values of the engine.  JavaScript values are tagged records.            *)
(***************************************************************************)
Null == [t |-> "null"]
Num(n) == [t |-> "num", num |-> n]
List(l) == [t |-> "list", list |-> l]
RowValue(r) == [t |-> "row", row |-> r]
TxResult(success, results) == [t |-> "tx", success |-> success, results |-> results]

\* rows as the driver delivers them: the columns in SELECT order
Row1 == << <<"a", 1>>, <<"b", 2>> >>
Row2 == << <<"a", 3>>, <<"b", 4>> >>

\* a row whose second column is named by a number (SELECT a, 1)
Row3 == << <<"a", 1>>, <<"1", 9>> >>

\* what the driver resolves a statement with: a row array, or a result header
DriverResults ==
    { List(<<>>), List(<<Row1, Row2>>), List(<<Row3>>),
      [t |-> "header", insertId |-> 7, affectedRows |-> 2],
      [t |-> "header", insertId |-> 0, affectedRows |-> 0] }

\* what the driver resolves the i-th entry of a transaction or batch with:
\* the header of an INSERT whose insertId tells the entries apart
EntryResults(i) == { [t |-> "header", insertId |-> i, affectedRows |-> 1] }

(***************************************************************************)
(* Bounds of the engine.                                                   *)
(***************************************************************************)
MaxCalls == 1       \* caller slots (calls in flight at once)
MaxConns == 1       \* connections of the driver pool
MaxEntries == 2     \* entries of a transaction or batch
MaxPrepared == 2    \* prepareQuery calls
MaxQueries == 2     \* pool.execute calls that complete

Calls == 1..MaxCalls
Conns == 1..MaxConns

SimpleOps == {"query", "fetchSingle", "fetchScalar", "insert", "update"}

\* the value each catch block returns
Zero(op) ==
    CASE op \in {"query", "batch"} -> List(<<>>)
      [] op \in {"fetchSingle", "fetchScalar"} -> Null
      [] op \in {"insert", "update"} -> Num(0)
      [] op = "transaction" -> TxResult(FALSE, <<>>)

\* the column names that are array indices, each with its number
ArrayIndexKeys == { <<"1", 1>>, <<"2", 2>> }

IsArrayIndex(key) == \E p \in ArrayIndexKeys : p[1] = key

IndexOfKey(key) == (CHOOSE p \in ArrayIndexKeys : p[1] = key)[2]

\* Object.keys(row) of a row object the driver filled column by column: the
\* keys that are array indices in ascending order, then the other keys in
\* the order they were set
ObjectKeys(row) ==
    LET names == [i \in 1..Len(row) |-> row[i][1]]
    IN  SortSeq(SelectSeq(names, IsArrayIndex),
                LAMBDA x, y : IndexOfKey(x) < IndexOfKey(y))
        \o SelectSeq(names, LAMBDA key : ~IsArrayIndex(key))

\* row[key]
ValueAt(row, key) == row[CHOOSE i \in 1..Len(row) : row[i][1] = key][2]

\* the result shaping of query, fetchSingle, fetchScalar, insert and update
Shape(op, results) ==
    CASE op = "query" -> results
      [] op = "fetchSingle" ->
            IF results.t = "list" /\ Len(results.list) > 0
            THEN RowValue(results.list[1]) ELSE Null
      [] op = "fetchScalar" ->
            IF results.t = "list" /\ Len(results.list) > 0
            THEN Num(ValueAt(results.list[1], ObjectKeys(results.list[1])[1]))
            ELSE Null
      [] op = "insert" ->
            IF results.t = "header" THEN Num(results.insertId) ELSE Num(0)
      [] op = "update" ->
            IF results.t = "header" THEN Num(results.affectedRows) ELSE Num(0)

(***************************************************************************)
(* A call of an exported operation.                                        *)
(*   op       the operation whose body runs: one of SimpleOps,             *)
(*            "transaction", "batch", or "none" (executePrepared that      *)
(*            found no stored text)                                        *)
(*   outer    "execute" or "executePrepared" when op was reached through   *)
(*            executeByQueryType, else "none"                              *)
(*   cb       whether a callback function was passed                       *)
(*   ready    ready() at the moment of the call                            *)
(*   n, idx   number of entries, and the entry being executed              *)
(*   conn     the connection checked out (0: none)                         *)
(*   log      the driver calls made, each [cmd, conn, entry, st, res]      *)
(*   open     whether the driver pool was open when the pending call was   *)
(*            made on it (a call made on an ended pool can only fail)      *)
(*   cbLog    the callback invocations, each [args, threw]                 *)
(*   err      the error the catch block caught                             *)
(*   outcome  what the call's promise settled with                         *)
(*   sql      the statement text execute or executePrepared classified     *)
(***************************************************************************)
IdleCall ==
    [pc |-> "idle", op |-> "none", outer |-> "none", cb |-> FALSE, ready |-> FALSE,
     n |-> 0, idx |-> 0, conn |-> 0, results |-> <<>>, log |-> <<>>, open |-> TRUE,
     cbLog |-> <<>>, err |-> "none", released |-> 0, outcome |-> NoValue, sql |-> <<>>]

NewCall(op, outer, cb, n) ==
    [IdleCall EXCEPT !.pc = "running", !.op = op, !.outer = outer, !.cb = cb,
                     !.n = n, !.ready = isReady]

Last(s) == s[Len(s)]

\* a driver call is made
Issue(k, cmd, conn, entry) ==
    [k EXCEPT !.log = Append(@, [cmd |-> cmd, conn |-> conn, entry |-> entry,
                                 st |-> "pending", res |-> NoValue]),
              !.open = (conn # 0 \/ driverPool = "open")]

\* the pending driver call resolves (st = "ok") with res, or rejects
\* (st = "failed")
Settle(k, st, res) ==
    [k EXCEPT !.log[Len(k.log)].st = st, !.log[Len(k.log)].res = res, !.open = TRUE]

Pending(k, cmd) ==
    /\ k.pc = "running"
    /\ k.log # <<>>
    /\ Last(k.log).cmd = cmd
    /\ Last(k.log).st = "pending"

\* whether each callback invocation throws: the i-th invocation of a call
\* throws iff ts[i].  A call invokes its callback at most three times (try
\* block, catch block, catch block of execute / executePrepared).
NoThrow == [i \in 1..3 |-> FALSE]

\* the choices for the next m invocations of call k's callback
ThrowChoices(k, m) ==
    IF k.cb
    THEN { ts \in [1..3 -> BOOLEAN] :
             \A i \in 1..3 : (i <= Len(k.cbLog) \/ i > Len(k.cbLog) + m) => ~ts[i] }
    ELSE { NoThrow }

\* if (callback && typeof callback === 'function') callback(args)
InvokeCb(k, args, ts) ==
    IF k.cb
    THEN [k EXCEPT !.cbLog = Append(@, [args |-> args, threw |-> ts[Len(k.cbLog) + 1]])]
    ELSE k

CbThrew(k) == k.cb /\ k.cbLog # <<>> /\ Last(k.cbLog).threw

Returned(k, v) == [k EXCEPT !.pc = "done", !.outcome = [kind |-> "return", value |-> v]]

Rejected(k, e) == [k EXCEPT !.pc = "done", !.outcome = [kind |-> "reject", error |-> e]]

\* the catch block of query, fetchSingle, fetchScalar, insert, update, batch
\* (the try block's `results` is out of scope in it)
CatchSimple(k, e, ts) ==
    LET k1 == InvokeCb([k EXCEPT !.err = e, !.results = <<>>], Zero(k.op), ts)
    IN  IF CbThrew(k1) THEN Rejected(k1, "callback") ELSE Returned(k1, Zero(k.op))

\* the end of the try block of the same: callback(value); return value
TryTail(k, value, ts) ==
    LET k1 == InvokeCb(k, value, ts)
    IN  IF CbThrew(k1) THEN CatchSimple(k1, "callback", ts) ELSE Returned(k1, value)

\* execute / executePrepared around a completed inner operation:
\* return await executeByQueryType(...), and the catch block
OuterTail(k, ts) ==
    IF k.pc # "done" \/ k.outer = "none" \/ k.outcome.kind = "return" THEN k
    ELSE LET k1 == InvokeCb(k, Null, ts)
         IN  IF CbThrew(k1) THEN Rejected(k1, "callback") ELSE Returned(k1, Null)

\* the body of query, fetchSingle, fetchScalar, insert or update up to its
\* first await
EnterSimple(k, ts) ==
    IF ~isReady THEN CatchSimple(k, "PoolNotReady", ts)
    ELSE Issue(k, "pool.execute", 0, 0)

(***************************************************************************)
(* The pool: _pool.js.                                                     *)
(***************************************************************************)
\* the durations a call of pool.execute may measure, in milliseconds: on
\* the threshold of a slow query and beyond it
Durations == {150, 416}

\* if (duration > 150)
SlowThreshold == 150

\* the significant bits of a Number (53), scaled down; the durations are
\* Numbers of that precision
MantissaBits == 7

RECURSIVE GCD(_, _)
GCD(a, b) == IF b = 0 THEN a ELSE GCD(b, a % b)

Abs(x) == IF x < 0 THEN -x ELSE x

RECURSIVE Pow2(_)
Pow2(n) == IF n = 0 THEN 1 ELSE 2 * Pow2(n - 1)

\* the fraction p / q, q > 0, in lowest terms
Ratio(p, q) ==
    LET g == GCD(Abs(p), q)
    IN  IF p = 0 THEN [num |-> 0, den |-> 1] ELSE [num |-> p \div g, den |-> q \div g]

\* the Number nearest to p / q, p >= 0, q > 0: MantissaBits significant bits,
\* a tie going to the even one
RECURSIVE Nearest(_, _)
Nearest(p, q) ==
    IF p = 0 THEN Ratio(0, 1)
    ELSE IF p >= Pow2(MantissaBits) * q
         THEN LET r == Nearest(p, 2 * q) IN Ratio(2 * r.num, r.den)
    ELSE IF p < Pow2(MantissaBits - 1) * q
         THEN LET r == Nearest(2 * p, q) IN Ratio(r.num, 2 * r.den)
    ELSE LET m == p \div q
             rest == p % q
         IN  IF 2 * rest > q \/ (2 * rest = q /\ m % 2 = 1)
             THEN Ratio(m + 1, 1) ELSE Ratio(m, 1)

\* the result of a floating-point operation whose exact value is p / q
Float(p, q) ==
    IF p < 0 THEN [num |-> -Nearest(-p, q).num, den |-> Nearest(-p, q).den]
    ELSE Nearest(p, q)

\* totalTime + duration
Plus(r, duration) == Float(r.num + duration * r.den, r.den)

\* duration - averageTime
Minus(duration, r) == Float(duration * r.den - r.num, r.den)

\* averageTime + delta / totalQueries
PlusOver(r, delta, n) ==
    LET quotient == Float(delta.num, delta.den * n)
    IN  Float(r.num * quotient.den + quotient.num * r.den, r.den * quotient.den)

\* the constructor's stats
NewStats ==
    [totalQueries |-> 0, slowQueries |-> 0, failedQueries |-> 0, totalTime |-> Ratio(0, 1),
     averageTime |-> Ratio(0, 1)]

\* a try block that would move the average half the way to each duration
StatsOnSuccessHalfWay(st, duration) ==
    LET n == st.totalQueries + 1
        delta == Minus(duration, st.averageTime)
    IN  [st EXCEPT !.totalQueries = n,
                   !.totalTime = Plus(@, duration),
                   !.averageTime = PlusOver(@, delta, 2),
                   !.slowQueries = IF duration > SlowThreshold THEN @ + 1 ELSE @]

\* pool.execute after the driver resolved: the stats of the try block
StatsOnSuccess(st, duration) ==
    LET n == st.totalQueries + 1
        delta == Minus(duration, st.averageTime)
    IN  [st EXCEPT !.totalQueries = n,
                   !.totalTime = Plus(@, duration),
                   !.averageTime = PlusOver(@, delta, n),
                   !.slowQueries = IF duration > SlowThreshold THEN @ + 1 ELSE @]

\* a catch block that would count the failed call among all queries
StatsOnFailureCountsAll(st) ==
    [st EXCEPT !.failedQueries = @ + 1, !.totalQueries = @ + 1]

\* pool.execute after the driver rejected: the stats of the catch block
StatsOnFailure(st) == [st EXCEPT !.failedQueries = @ + 1]

\* the configurations the constructor can read from the convars; the first
\* is the one of the convar defaults
DefaultConfig ==
    [host |-> "localhost", port |-> 3306, user |-> "root", password |-> "",
     database |-> "fivem", charset |-> "utf8mb4", connectionLimit |-> 10]

Configs ==
    [host : {"localhost", "db.internal"}, port : {3306}, user : {"root", "game"},
     password : {"", "s3cret"}, database : {"fivem"},
     charset : {"utf8mb4"}, connectionLimit : {10}]

\* a getStats() that would hand out the configuration object itself
GetStatsWholeConfig(st, ready, cfg) ==
    [totalQueries |-> st.totalQueries, slowQueries |-> st.slowQueries,
     failedQueries |-> st.failedQueries, totalTime |-> st.totalTime,
     averageTime |-> st.averageTime, isReady |-> ready, config |-> cfg]

\* getStats() of a pool with the stats st, the ready flag ready and the
\* configuration cfg
GetStats(st, ready, cfg) ==
    [totalQueries |-> st.totalQueries, slowQueries |-> st.slowQueries,
     failedQueries |-> st.failedQueries, totalTime |-> st.totalTime,
     averageTime |-> st.averageTime, isReady |-> ready,
     config |-> [host |-> cfg.host, port |-> cfg.port, database |-> cfg.database,
                 connectionLimit |-> cfg.connectionLimit]]

\* getStats(): the live stats, the ready flag and the redacted configuration
getStats == GetStats(stats, isReady, config)

\* a try block that would report a query as slow from the threshold on
EmitOnSuccessFromThreshold(ev, query, duration) ==
    LET ev1 == IF duration >= SlowThreshold
               THEN Append(ev, [name |-> "ingenium.sql:SlowQuery", query |-> query,
                                duration |-> duration, success |-> TRUE])
               ELSE ev
    IN  Append(ev1, [name |-> "ig:sql:queryExecuted", query |-> query,
                     duration |-> duration, success |-> TRUE])

\* emit('ingenium.sql:SlowQuery', { query, duration, parameters }) and
\* emit('ig:sql:queryExecuted', { query, duration, success: true }) of the
\* try block; `query` stands for the text and the parameters of the call
EmitOnSuccess(ev, query, duration) ==
    LET ev1 == IF duration > SlowThreshold
               THEN Append(ev, [name |-> "ingenium.sql:SlowQuery", query |-> query,
                                duration |-> duration, success |-> TRUE])
               ELSE ev
    IN  Append(ev1, [name |-> "ig:sql:queryExecuted", query |-> query,
                     duration |-> duration, success |-> TRUE])

\* a catch block that would emit no event
EmitOnFailureSilent(ev, query) == ev

\* emit('ig:sql:queryExecuted', { query, duration: 0, success: false, ... })
\* of the catch block
EmitOnFailure(ev, query) ==
    Append(ev, [name |-> "ig:sql:queryExecuted", query |-> query, duration |-> 0,
                success |-> FALSE])

Executed == SelectSeq(emitted, LAMBDA e : e.name = "ig:sql:queryExecuted")

\* the text and parameters of the pool.execute call of caller c in flight,
\* named by the entry they come from (0: the statement of a simple operation)
QueryOf(c) == calls[c].idx

\* pool.execute completes with the driver's result: stats and events
ExecuteResolves(c) ==
    /\ Len(Executed) < MaxQueries
    /\ \E duration \in Durations :
          /\ stats' = StatsOnSuccess(stats, duration)
          /\ emitted' = EmitOnSuccess(emitted, QueryOf(c), duration)

\* pool.execute completes with the driver's error: stats and events
ExecuteRejects(c) ==
    /\ Len(Executed) < MaxQueries
    /\ stats' = StatsOnFailure(stats)
    /\ emitted' = EmitOnFailure(emitted, QueryOf(c))

ClassifyStart ==
    /\ classified = NoValue
    /\ queryTypeCache = <<>>

\* pool.execute calls made side by side, not through an exported operation
MaxFlights == 2

Flights == 1..MaxFlights

\* a slot in which pool.execute has not been called
IdleFlight == [pc |-> "idle", open |-> FALSE, success |-> FALSE, over |-> {}]

\* ig.sql.AwaitReady has not been called
IdleWaiter ==
    [pc |-> "idle", copy |-> "none", maxWait |-> 0, waited |-> 0, interval |-> 0,
     polls |-> 0, lastWait |-> 0, result |-> FALSE]

EngineStart ==
    /\ config = DefaultConfig
    /\ waiter = IdleWaiter
    /\ flights = [f \in Flights |-> IdleFlight]
    /\ stats = NewStats
    /\ emitted = <<>>
    /\ closed = FALSE
    /\ isReady = FALSE
    /\ driverPool = "null"
    /\ initPc = "scheduled"
    /\ closePc = "idle"
    /\ checkedOut = {}
    /\ calls = [c \in Calls |-> IdleCall]
    /\ preparedQueries = <<>>
    /\ queryIdCounter = 0
    /\ issued = <<>>

\* an initialize() that would declare readiness once the driver pool is
\* built, before its probe
InitializeStartReadyEarly ==
    /\ initPc = "scheduled"
    /\ \/ /\ driverPool' = "open"
          /\ initPc' = "probing"
          /\ isReady' = TRUE
       \/ /\ isReady' = FALSE
          /\ initPc' = "failed"
          /\ UNCHANGED driverPool
    /\ UNCHANGED <<bindVars, classVars, config, waiter, flights, statVars, closed, closePc, checkedOut, calls, preparedQueries,
                   queryIdCounter, issued>>

\* initialize() up to the probe's await; createPool may throw
InitializeStart ==
    /\ initPc = "scheduled"
    /\ \/ /\ driverPool' = "open"
          /\ initPc' = "probing"
          /\ UNCHANGED isReady
       \/ /\ isReady' = FALSE
          /\ initPc' = "failed"
          /\ UNCHANGED driverPool
    /\ UNCHANGED <<bindVars, classVars, config, waiter, flights, statVars, closed, closePc, checkedOut, calls, preparedQueries, queryIdCounter, issued>>

\* the probe connection arrives: release it, isReady = true
InitializeProbeReturns ==
    /\ initPc = "probing"
    /\ driverPool = "open"
    /\ checkedOut # Conns
    /\ isReady' = TRUE
    /\ initPc' = "done"
    /\ UNCHANGED <<bindVars, classVars, config, waiter, flights, statVars, closed, driverPool, closePc, checkedOut, calls, preparedQueries, queryIdCounter, issued>>

\* the probe fails: isReady = false
InitializeProbeThrows ==
    /\ initPc = "probing"
    /\ isReady' = FALSE
    /\ initPc' = "failed"
    /\ UNCHANGED <<bindVars, classVars, config, waiter, flights, statVars, closed, driverPool, closePc, checkedOut, calls, preparedQueries, queryIdCounter, issued>>

\* close() up to await this.pool.end()
CloseStart ==
    /\ closePc # "ending"
    /\ IF driverPool # "null"
       THEN driverPool' = "ended" /\ closePc' = "ending" /\ UNCHANGED closed
       ELSE closePc' = "done" /\ closed' = TRUE /\ UNCHANGED driverPool
    /\ UNCHANGED <<bindVars, classVars, config, waiter, flights, statVars, isReady, initPc, checkedOut, calls, preparedQueries, queryIdCounter, issued>>

\* pool.end() resolved: isReady = false
CloseEnd ==
    /\ closePc = "ending"
    /\ isReady' = FALSE
    /\ closePc' = "done"
    /\ closed' = TRUE
    /\ UNCHANGED <<bindVars, classVars, config, waiter, flights, statVars, driverPool, initPc, checkedOut, calls, preparedQueries, queryIdCounter, issued>>

(***************************************************************************)
(* query, fetchSingle, fetchScalar, insert, update.                        *)
(***************************************************************************)
CallSimple(c) ==
    /\ calls[c].pc = "idle"
    /\ \E op \in SimpleOps, cb \in BOOLEAN :
       \E ts \in ThrowChoices(NewCall(op, "none", cb, 0), 1) :
          calls' = [calls EXCEPT ![c] = EnterSimple(NewCall(op, "none", cb, 0), ts)]
    /\ UNCHANGED <<bindVars, classVars, config, waiter, flights, statVars, closed, isReady, driverPool, initPc, closePc, checkedOut,
                   preparedQueries, queryIdCounter, issued>>

\* pool.execute resolves inside a simple operation
PoolExecuteReturns(c) ==
    /\ Pending(calls[c], "pool.execute")
    /\ calls[c].op \in SimpleOps
    /\ calls[c].open
    /\ \E r \in DriverResults, ts \in ThrowChoices(calls[c], 3) :
          calls' = [calls EXCEPT ![c] =
                        OuterTail(TryTail(Settle(@, "ok", r), Shape(@.op, r), ts), ts)]
    /\ ExecuteResolves(c)
    /\ UNCHANGED <<bindVars, classVars, config, waiter, flights, closed, isReady, driverPool, initPc, closePc, checkedOut,
                   preparedQueries, queryIdCounter, issued>>

\* pool.execute rethrows the driver's error inside a simple operation
PoolExecuteThrows(c) ==
    /\ Pending(calls[c], "pool.execute")
    /\ calls[c].op \in SimpleOps
    /\ \E ts \in ThrowChoices(calls[c], 2) :
          calls' = [calls EXCEPT ![c] =
                        OuterTail(CatchSimple(Settle(@, "failed", NoValue), "driver", ts), ts)]
    /\ ExecuteRejects(c)
    /\ UNCHANGED <<bindVars, classVars, config, waiter, flights, closed, isReady, driverPool, initPc, closePc, checkedOut,
                   preparedQueries, queryIdCounter, issued>>

(***************************************************************************)
(* transaction.                                                            *)
(***************************************************************************)

\* a finally block that would run only when the call returns normally
FinallyOnReturnOnly(k) ==
    IF k.pc = "done" /\ k.conn # 0 /\ k.outcome.kind = "return"
    THEN [k EXCEPT !.released = @ + 1] ELSE k

\* the finally block: if (connection) connection.release()
Finally(k) == IF k.pc = "done" /\ k.conn # 0 THEN [k EXCEPT !.released = @ + 1] ELSE k

\* the driver pool's connections after a step that takes a call to k2:
\* connection.release() hands k2's connection back
AfterRelease(k2) ==
    IF k2.released > 0 THEN checkedOut \ {k2.conn} ELSE checkedOut

\* the catch block after its rollback: console.error; callback(false, []);
\* return { success: false, results: [] }; then the finally block
TxCatchTail(k, ts) ==
    LET k1 == InvokeCb(k, TxResult(FALSE, <<>>), ts)
    IN  Finally(IF CbThrew(k1) THEN Rejected(k1, "callback")
                ELSE Returned(k1, TxResult(FALSE, <<>>)))

\* the catch block is entered with error e: if (connection) await
\* connection.rollback()
\* (the try block's `results` is out of scope in it)
TxCatch(k, e, ts) ==
    IF k.conn # 0 THEN Issue([k EXCEPT !.err = e, !.results = <<>>], "ROLLBACK", k.conn, 0)
    ELSE TxCatchTail([k EXCEPT !.err = e, !.results = <<>>], ts)

\* a loop that would stop one entry short and commit
TxNextCommitsEarly(k, i) ==
    IF i < k.n THEN Issue([k EXCEPT !.idx = i], "connection.execute", k.conn, i)
    ELSE Issue(k, "COMMIT", k.conn, 0)

\* the loop of the try block reaches entry i, or the commit after the last
TxNext(k, i) ==
    IF i <= k.n THEN Issue([k EXCEPT !.idx = i], "connection.execute", k.conn, i)
    ELSE Issue(k, "COMMIT", k.conn, 0)

CallTransaction(c) ==
    /\ calls[c].pc = "idle"
    /\ \E cb \in BOOLEAN, n \in 0..MaxEntries :
       \E ts \in ThrowChoices(NewCall("transaction", "none", cb, n), 1) :
          calls' = [calls EXCEPT ![c] =
                        IF ~isReady
                        THEN TxCatch(NewCall("transaction", "none", cb, n), "PoolNotReady", ts)
                        ELSE Issue(NewCall("transaction", "none", cb, n), "getConnection", 0, 0)]
    /\ UNCHANGED <<bindVars, classVars, config, waiter, flights, statVars, closed, isReady, driverPool, initPc, closePc, checkedOut,
                   preparedQueries, queryIdCounter, issued>>

\* the driver pool hands out a free connection; beginTransaction is called
GetConnectionReturns(c) ==
    /\ Pending(calls[c], "getConnection")
    /\ calls[c].open
    /\ driverPool = "open"
    /\ \E conn \in Conns \ checkedOut :
          /\ checkedOut' = checkedOut \cup {conn}
          /\ calls' = [calls EXCEPT ![c] =
                           Issue([Settle(@, "ok", NoValue) EXCEPT !.conn = conn], "BEGIN", conn, 0)]
    /\ UNCHANGED <<bindVars, classVars, config, waiter, flights, statVars, closed, isReady, driverPool, initPc, closePc,
                   preparedQueries, queryIdCounter, issued>>

GetConnectionThrows(c) ==
    /\ Pending(calls[c], "getConnection")
    /\ \E ts \in ThrowChoices(calls[c], 1) :
          calls' = [calls EXCEPT ![c] = TxCatch(Settle(@, "failed", NoValue), "getConnection", ts)]
    /\ UNCHANGED <<bindVars, classVars, config, waiter, flights, statVars, closed, isReady, driverPool, initPc, closePc, checkedOut,
                   preparedQueries, queryIdCounter, issued>>

BeginReturns(c) ==
    /\ Pending(calls[c], "BEGIN")
    /\ calls' = [calls EXCEPT ![c] = TxNext(Settle(@, "ok", NoValue), 1)]
    /\ UNCHANGED <<bindVars, classVars, config, waiter, flights, statVars, closed, isReady, driverPool, initPc, closePc, checkedOut,
                   preparedQueries, queryIdCounter, issued>>

BeginThrows(c) ==
    /\ Pending(calls[c], "BEGIN")
    /\ \E ts \in ThrowChoices(calls[c], 1) :
          calls' = [calls EXCEPT ![c] = TxCatch(Settle(@, "failed", NoValue), "BEGIN", ts)]
    /\ UNCHANGED <<bindVars, classVars, config, waiter, flights, statVars, closed, isReady, driverPool, initPc, closePc, checkedOut,
                   preparedQueries, queryIdCounter, issued>>

\* connection.execute resolves: results.push(result), next entry or commit
ConnExecuteReturns(c) ==
    /\ Pending(calls[c], "connection.execute")
    /\ \E r \in EntryResults(calls[c].idx) :
          calls' = [calls EXCEPT ![c] =
                        TxNext([Settle(@, "ok", r) EXCEPT !.results = Append(@, r)], @.idx + 1)]
    /\ UNCHANGED <<bindVars, classVars, config, waiter, flights, statVars, closed, isReady, driverPool, initPc, closePc, checkedOut,
                   preparedQueries, queryIdCounter, issued>>

ConnExecuteThrows(c) ==
    /\ Pending(calls[c], "connection.execute")
    /\ \E ts \in ThrowChoices(calls[c], 1) :
          calls' = [calls EXCEPT ![c] = TxCatch(Settle(@, "failed", NoValue), "entry", ts)]
    /\ UNCHANGED <<bindVars, classVars, config, waiter, flights, statVars, closed, isReady, driverPool, initPc, closePc, checkedOut,
                   preparedQueries, queryIdCounter, issued>>

\* the try block after commit: callback(true, results);
\* return { success: true, results }
TxTryTail(k, ts) ==
    LET k1 == InvokeCb(k, TxResult(TRUE, k.results), ts)
    IN  IF CbThrew(k1) THEN TxCatch(k1, "callback", ts)
        ELSE Finally(Returned(k1, TxResult(TRUE, k.results)))

CommitReturns(c) ==
    /\ Pending(calls[c], "COMMIT")
    /\ \E ts \in ThrowChoices(calls[c], 1) :
          /\ calls' = [calls EXCEPT ![c] = TxTryTail(Settle(@, "ok", NoValue), ts)]
          /\ checkedOut' = AfterRelease(calls'[c])
    /\ UNCHANGED <<bindVars, classVars, config, waiter, flights, statVars, closed, isReady, driverPool, initPc, closePc,
                   preparedQueries, queryIdCounter, issued>>

CommitThrows(c) ==
    /\ Pending(calls[c], "COMMIT")
    /\ \E ts \in ThrowChoices(calls[c], 1) :
          calls' = [calls EXCEPT ![c] = TxCatch(Settle(@, "failed", NoValue), "COMMIT", ts)]
    /\ UNCHANGED <<bindVars, classVars, config, waiter, flights, statVars, closed, isReady, driverPool, initPc, closePc, checkedOut,
                   preparedQueries, queryIdCounter, issued>>

RollbackReturns(c) ==
    /\ Pending(calls[c], "ROLLBACK")
    /\ \E ts \in ThrowChoices(calls[c], 1) :
          /\ calls' = [calls EXCEPT ![c] = TxCatchTail(Settle(@, "ok", NoValue), ts)]
          /\ checkedOut' = AfterRelease(calls'[c])
    /\ UNCHANGED <<bindVars, classVars, config, waiter, flights, statVars, closed, isReady, driverPool, initPc, closePc,
                   preparedQueries, queryIdCounter, issued>>

\* await connection.rollback() throws inside the catch block: the finally
\* block runs and the error leaves the function
RollbackThrows(c) ==
    /\ Pending(calls[c], "ROLLBACK")
    /\ calls' = [calls EXCEPT ![c] = Finally(Rejected(Settle(@, "failed", NoValue), "ROLLBACK"))]
    /\ checkedOut' = AfterRelease(calls'[c])
    /\ UNCHANGED <<bindVars, classVars, config, waiter, flights, statVars, closed, isReady, driverPool, initPc, closePc,
                   preparedQueries, queryIdCounter, issued>>

(***************************************************************************)
(* batch.                                                                  *)
(***************************************************************************)
\* the loop of batch reaches entry i, or the end of the try block
BatchNext(k, i, ts) ==
    IF i <= k.n THEN Issue([k EXCEPT !.idx = i], "pool.execute", 0, i)
    ELSE TryTail(k, List(k.results), ts)

CallBatch(c) ==
    /\ calls[c].pc = "idle"
    /\ \E cb \in BOOLEAN, n \in 0..MaxEntries :
       \E ts \in ThrowChoices(NewCall("batch", "none", cb, n), 2) :
          calls' = [calls EXCEPT ![c] =
                        IF ~isReady
                        THEN CatchSimple(NewCall("batch", "none", cb, n), "PoolNotReady", ts)
                        ELSE BatchNext(NewCall("batch", "none", cb, n), 1, ts)]
    /\ UNCHANGED <<bindVars, classVars, config, waiter, flights, statVars, closed, isReady, driverPool, initPc, closePc, checkedOut,
                   preparedQueries, queryIdCounter, issued>>

BatchExecuteReturns(c) ==
    /\ Pending(calls[c], "pool.execute")
    /\ calls[c].op = "batch"
    /\ calls[c].open
    /\ \E r \in EntryResults(calls[c].idx), ts \in ThrowChoices(calls[c], 2) :
          calls' = [calls EXCEPT ![c] =
                        BatchNext([Settle(@, "ok", r) EXCEPT !.results = Append(@, r)],
                                  @.idx + 1, ts)]
    /\ ExecuteResolves(c)
    /\ UNCHANGED <<bindVars, classVars, config, waiter, flights, closed, isReady, driverPool, initPc, closePc, checkedOut,
                   preparedQueries, queryIdCounter, issued>>

BatchExecuteThrows(c) ==
    /\ Pending(calls[c], "pool.execute")
    /\ calls[c].op = "batch"
    /\ \E ts \in ThrowChoices(calls[c], 1) :
          calls' = [calls EXCEPT ![c] = CatchSimple(Settle(@, "failed", NoValue), "driver", ts)]
    /\ ExecuteRejects(c)
    /\ UNCHANGED <<bindVars, classVars, config, waiter, flights, closed, isReady, driverPool, initPc, closePc, checkedOut,
                   preparedQueries, queryIdCounter, issued>>

(***************************************************************************)
(* executeByQueryType, execute, prepareQuery, executePrepared.             *)
(***************************************************************************)
\* String.prototype.toUpperCase, one character
UpperChar(ch) ==
    IF \E p \in LetterPairs : p[1] = ch
    THEN (CHOOSE p \in LetterPairs : p[1] = ch)[2]
    ELSE ch

ToUpperCase(s) == [i \in 1..Len(s) |-> UpperChar(s[i])]

\* the position after the leading \s* of s, from position i on
RECURSIVE SkipSpace(_, _)
SkipSpace(s, i) == IF i <= Len(s) /\ s[i] = " " THEN SkipSpace(s, i + 1) ELSE i

\* a detection that would compare the first word as it is written
QueryTypeCaseSensitive(sqlQuery) ==
    LET i == SkipSpace(sqlQuery, 1)
    IN  IF i <= Len(sqlQuery) /\ sqlQuery[i] \in WordChars
        THEN SubSeq(sqlQuery, i, WordEnd(sqlQuery, i))
        ELSE <<>>

\* sqlQuery.match(/^\s*(\w+)/i): match[1].toUpperCase(), or '' without match
QueryType(sqlQuery) ==
    LET i == SkipSpace(sqlQuery, 1)
    IN  IF i <= Len(sqlQuery) /\ sqlQuery[i] \in WordChars
        THEN ToUpperCase(SubSeq(sqlQuery, i, WordEnd(sqlQuery, i)))
        ELSE <<>>

\* the switch of executeByQueryType: the operation the text is handed to
RouteOf(sqlQuery) ==
    CASE QueryType(sqlQuery) = <<"S", "E", "L", "E", "C", "T">> -> "query"
      [] QueryType(sqlQuery) = <<"I", "N", "S", "E", "R", "T">> -> "insert"
      [] QueryType(sqlQuery) = <<"U", "P", "D", "A", "T", "E">> -> "update"
      [] QueryType(sqlQuery) = <<"D", "E", "L", "E", "T", "E">> -> "update"
      [] OTHER -> "query"

\* the statement texts callers pass to execute and prepareQuery
StatementTexts ==
    { <<" ", "s", "e", "l", "e", "c", "t", " ", "1">>,
      <<"I", "N", "S", "E", "R", "T", " ", "a">>,
      <<"D", "e", "l", "e", "t", "e", " ", "a">> }

\* the ids callers pass to executePrepared: `prepared_<n>` is n, 0 is an id
\* prepareQuery never returned
QueryIds == 0..MaxPrepared

\* a call that reached executeByQueryType with text sqlQuery
Routed(sqlQuery, outer, cb) ==
    [NewCall(RouteOf(sqlQuery), outer, cb, 0) EXCEPT !.sql = sqlQuery]

CallExecute(c) ==
    /\ calls[c].pc = "idle"
    /\ \E sqlQuery \in StatementTexts, cb \in BOOLEAN :
       \E ts \in ThrowChoices(Routed(sqlQuery, "execute", cb), 2) :
          calls' = [calls EXCEPT ![c] =
                        OuterTail(EnterSimple(Routed(sqlQuery, "execute", cb), ts), ts)]
    /\ UNCHANGED <<bindVars, classVars, config, waiter, flights, statVars, closed, isReady, driverPool, initPc, closePc, checkedOut,
                   preparedQueries, queryIdCounter, issued>>

\* a prepareQuery that would name the entry after the number of entries the
\* registry holds for other texts, so that a text keeps one id
PrepareQueryIdPerText ==
    /\ queryIdCounter < MaxPrepared
    /\ \E query \in StatementTexts :
          LET others == { id \in DOMAIN preparedQueries : preparedQueries[id] # query }
              queryId == Cardinality(others) + 1
          IN  /\ queryIdCounter' = queryIdCounter + 1
              /\ preparedQueries' =
                    [id \in DOMAIN preparedQueries \cup {queryId} |->
                        IF id = queryId THEN query ELSE preparedQueries[id]]
              /\ issued' = Append(issued, [id |-> queryId, query |-> query])
    /\ UNCHANGED <<bindVars, classVars, config, waiter, flights, statVars, closed, isReady, driverPool, initPc, closePc, checkedOut, calls>>

\* a prepareQuery whose registry would keep the newest entry only
PrepareQueryKeepsNewest ==
    /\ queryIdCounter < MaxPrepared
    /\ \E query \in StatementTexts :
          LET queryId == queryIdCounter + 1
          IN  /\ queryIdCounter' = queryId
              /\ preparedQueries' = [id \in {queryId} |-> query]
              /\ issued' = Append(issued, [id |-> queryId, query |-> query])
    /\ UNCHANGED <<bindVars, classVars, config, waiter, flights, statVars, closed, isReady, driverPool, initPc, closePc, checkedOut, calls>>

\* const queryId = `prepared_${++queryIdCounter}`; preparedQueries.set(...);
\* return queryId
PrepareQuery ==
    /\ queryIdCounter < MaxPrepared
    /\ \E query \in StatementTexts :
          LET queryId == queryIdCounter + 1
          IN  /\ queryIdCounter' = queryId
              /\ preparedQueries' =
                    [id \in DOMAIN preparedQueries \cup {queryId} |->
                        IF id = queryId THEN query ELSE preparedQueries[id]]
              /\ issued' = Append(issued, [id |-> queryId, query |-> query])
    /\ UNCHANGED <<bindVars, classVars, config, waiter, flights, statVars, closed, isReady, driverPool, initPc, closePc, checkedOut, calls>>

\* executePrepared with an id the registry does not hold: throw, and the
\* catch block
UnknownHandle(k, ts) ==
    LET k1 == InvokeCb([k EXCEPT !.err = "UnknownHandle"], Null, ts)
    IN  IF CbThrew(k1) THEN Rejected(k1, "callback") ELSE Returned(k1, Null)

CallExecutePrepared(c) ==
    /\ calls[c].pc = "idle"
    /\ \E queryId \in QueryIds, cb \in BOOLEAN :
          IF queryId \in DOMAIN preparedQueries
          THEN LET storedQuery == preparedQueries[queryId]
               IN  \E ts \in ThrowChoices(Routed(storedQuery, "executePrepared", cb), 2) :
                      calls' = [calls EXCEPT ![c] =
                          OuterTail(EnterSimple(Routed(storedQuery, "executePrepared", cb), ts),
                                    ts)]
          ELSE \E ts \in ThrowChoices(NewCall("none", "executePrepared", cb, 0), 1) :
                  calls' = [calls EXCEPT ![c] =
                      UnknownHandle(NewCall("none", "executePrepared", cb, 0), ts)]
    /\ UNCHANGED <<bindVars, classVars, config, waiter, flights, statVars, closed, isReady, driverPool, initPc, closePc, checkedOut,
                   preparedQueries, queryIdCounter, issued>>

\* the caller is done with a settled call; its slot serves the next call
Retire(c) ==
    /\ calls[c].pc = "done"
    /\ calls' = [calls EXCEPT ![c] = IdleCall]
    /\ UNCHANGED <<bindVars, classVars, config, waiter, flights, statVars, closed, isReady, driverPool, initPc, closePc, checkedOut,
                   preparedQueries, queryIdCounter, issued>>

(***************************************************************************)
(* The classification of executeByQueryType on its own.                    *)
(***************************************************************************)
MaxLead == 3        \* leading blanks of a classified text

\* the default branch of the switch: console.warn(...)
Warns(sqlQuery) ==
    QueryType(sqlQuery) \notin { <<"S", "E", "L", "E", "C", "T">>,
                                 <<"I", "N", "S", "E", "R", "T">>,
                                 <<"U", "P", "D", "A", "T", "E">>,
                                 <<"D", "E", "L", "E", "T", "E">> }

\* the first words of the texts classified: the four keywords in several
\* spellings, a prefix of a keyword, another statement, and no word
FirstWords ==
    { <<"s", "e", "l", "e", "c", "t">>, <<"S", "E", "L", "E", "C", "T">>,
      <<"S", "e", "l", "e", "c", "T">>, <<"i", "n", "s", "e", "r", "t">>,
      <<"I", "N", "S", "E", "R", "T">>, <<"u", "p", "d", "a", "t", "e">>,
      <<"U", "p", "d", "a", "t", "e">>, <<"d", "e", "l", "e", "t", "e">>,
      <<"D", "E", "L", "E", "T", "E">>, <<"s", "e", "l">>,
      <<"c", "a", "l", "l">>, <<>> }

\* what follows the first word: nothing, a blank, a character that is not a
\* word character, and word characters that lengthen the word
Tails == { <<>>, <<" ", "1">>, <<"?">>, <<"s">>, <<"_", "1">> }

ClassifyTexts ==
    { Repeat(" ", n) \o w \o t : n \in 0..MaxLead, w \in FirstWords, t \in Tails }

InitRoute ==
    /\ sqlText \in ClassifyTexts
    /\ parameters = [kind |-> "null"]
    /\ bound = NoValue
    /\ ClassifyStart
    /\ EngineStart

\* the match, the switch and the warning of executeByQueryType on sqlText
Route ==
    /\ classified = NoValue
    /\ classified' = [sql |-> sqlText, type |-> QueryType(sqlText),
                      route |-> RouteOf(sqlText), warned |-> Warns(sqlText)]
    /\ UNCHANGED <<bindVars, queryTypeCache, engineVars>>

NextRoute == Route

SpecRoute == InitRoute /\ [][NextRoute]_vars

(***************************************************************************)
(* The binder on its own: one call of processParameters on drawn inputs.   *)
(***************************************************************************)
InitBind ==
    /\ sqlText \in SqlTexts
    /\ parameters \in ParameterInputs
    /\ bound = NoValue
    /\ ClassifyStart
    /\ EngineStart

Bind ==
    /\ bound = NoValue
    /\ bound' = processParameters(sqlText, parameters)
    /\ UNCHANGED <<sqlText, parameters>>
    /\ UNCHANGED <<classVars, engineVars>>

NextBind == Bind

SpecBind == InitBind /\ [][NextBind]_vars

(***************************************************************************)
(* The engine: the pool's life and the callers' calls, interleaved at the  *)
(* awaits.  The binder's variables rest.                                   *)
(***************************************************************************)
Init ==
    /\ sqlText = <<>>
    /\ parameters = [kind |-> "null"]
    /\ bound = NoValue
    /\ ClassifyStart
    /\ EngineStart

Next ==
    \/ InitializeStart
    \/ InitializeProbeReturns
    \/ InitializeProbeThrows
    \/ CloseStart
    \/ CloseEnd
    \/ PrepareQuery
    \/ \E c \in Calls :
          \/ CallSimple(c)
          \/ PoolExecuteReturns(c)
          \/ PoolExecuteThrows(c)
          \/ CallTransaction(c)
          \/ GetConnectionReturns(c)
          \/ GetConnectionThrows(c)
          \/ BeginReturns(c)
          \/ BeginThrows(c)
          \/ ConnExecuteReturns(c)
          \/ ConnExecuteThrows(c)
          \/ CommitReturns(c)
          \/ CommitThrows(c)
          \/ RollbackReturns(c)
          \/ RollbackThrows(c)
          \/ CallBatch(c)
          \/ BatchExecuteReturns(c)
          \/ BatchExecuteThrows(c)
          \/ CallExecute(c)
          \/ CallExecutePrepared(c)
          \/ Retire(c)

Spec == Init /\ [][Next]_vars

(***************************************************************************)
(* The pool's start, the registry of prepared queries and one              *)
(* executePrepared call per caller.                                        *)
(***************************************************************************)
NextPrep ==
    \/ InitializeStart
    \/ InitializeProbeReturns
    \/ InitializeProbeThrows
    \/ PrepareQuery
    \/ \E c \in Calls :
          \/ CallExecutePrepared(c)
          \/ PoolExecuteReturns(c)
          \/ PoolExecuteThrows(c)

SpecPrep == Init /\ [][NextPrep]_vars

(***************************************************************************)
(* The pool's life and transaction calls alone.                            *)
(***************************************************************************)
NextTx ==
    \/ InitializeStart
    \/ InitializeProbeReturns
    \/ InitializeProbeThrows
    \/ CloseStart
    \/ CloseEnd
    \/ \E c \in Calls :
          \/ CallTransaction(c)
          \/ GetConnectionReturns(c)
          \/ GetConnectionThrows(c)
          \/ BeginReturns(c)
          \/ BeginThrows(c)
          \/ ConnExecuteReturns(c)
          \/ ConnExecuteThrows(c)
          \/ CommitReturns(c)
          \/ CommitThrows(c)
          \/ RollbackReturns(c)
          \/ RollbackThrows(c)
          \/ Retire(c)

SpecTx == Init /\ [][NextTx]_vars

(***************************************************************************)
(* The pool's life and batch calls alone: sequences of pool.execute calls.  *)
(***************************************************************************)
NextBatch ==
    \/ InitializeStart
    \/ InitializeProbeReturns
    \/ InitializeProbeThrows
    \/ CloseStart
    \/ CloseEnd
    \/ \E c \in Calls :
          \/ CallBatch(c)
          \/ BatchExecuteReturns(c)
          \/ BatchExecuteThrows(c)
          \/ Retire(c)

SpecBatch == Init /\ [][NextBatch]_vars

(***************************************************************************)
(* The classification cache: the type found for a text is stored under     *)
(* the first characters of the text; a full cache takes no new entry and   *)
(* drops none.  The length of the key (100) and the capacity (1000) are     *)
(* scaled down; the key stays longer than a keyword.                       *)
(***************************************************************************)
KeyLen == 8          \* characters of a text that make its cache key
CacheCapacity == 2   \* entries the cache takes

\* the texts classified through the cache: a keyword, the keyword lengthened
\* and another keyword, at the start of the text, ending at the end of the
\* key, and after as many blanks as the key is long
CacheTexts ==
    { Repeat(" ", n) \o w \o <<" ", "1">> :
        n \in {0, KeyLen - 6, KeyLen},
        w \in { <<"s", "e", "l", "e", "c", "t">>, <<"s", "e", "l", "e", "c", "t", "s">>,
                <<"I", "N", "S", "E", "R", "T">> } }

CacheKey(sqlQuery) ==
    IF Len(sqlQuery) <= KeyLen THEN sqlQuery ELSE SubSeq(sqlQuery, 1, KeyLen)

\* the type the classifier answers for sqlQuery with cache `cache`
CachedType(cache, sqlQuery) ==
    IF CacheKey(sqlQuery) \in DOMAIN cache
    THEN cache[CacheKey(sqlQuery)]
    ELSE QueryType(sqlQuery)

\* the cache after the classification of sqlQuery
CacheAfter(cache, sqlQuery) ==
    IF CacheKey(sqlQuery) \in DOMAIN cache \/ Cardinality(DOMAIN cache) >= CacheCapacity
    THEN cache
    ELSE [key \in DOMAIN cache \cup {CacheKey(sqlQuery)} |->
            IF key = CacheKey(sqlQuery) THEN QueryType(sqlQuery) ELSE cache[key]]

\* one classification through the cache
Classify ==
    /\ \E sqlQuery \in CacheTexts :
          /\ classified' = [sql |-> sqlQuery, type |-> CachedType(queryTypeCache, sqlQuery)]
          /\ queryTypeCache' = CacheAfter(queryTypeCache, sqlQuery)
    /\ UNCHANGED <<bindVars, engineVars>>

NextCache == Classify

SpecCache == Init /\ [][NextCache]_vars


(***************************************************************************)
(* Reference notions for the binder's claims, read off the original text.  *)
(***************************************************************************)
BindDone == bound # NoValue /\ parameters.kind = "map"

\* the occurrences, left to right, of the named tokens whose name is a key
MappedTokens(s, map) == SelectSeq(MatchTokens(s, 1), LAMBDA t : KeyOf(t) \in DOMAIN map)

\* the occurrences, left to right, of the named tokens whose name is no key
UnmappedTokens(s, map) == SelectSeq(MatchTokens(s, 1), LAMBDA t : KeyOf(t) \notin DOMAIN map)

\* the map values of the mapped occurrences, in occurrence order
ArgsInOccurrenceOrder(s, map) ==
    [i \in 1..Len(MappedTokens(s, map)) |-> map[KeyOf(MappedTokens(s, map)[i])]]

CountMarkers(s) == Len(SelectSeq(s, LAMBDA c : c = "?"))

\* t is a proper prefix of u
ProperPrefix(t, u) == Len(t) < Len(u) /\ SubSeq(u, 1, Len(t)) = t

\* no named token of s is a proper prefix of another named token of s
NoPrefixedToken(s) ==
    \A i, j \in 1..Len(MatchTokens(s, 1)) :
        ~ProperPrefix(MatchTokens(s, 1)[i], MatchTokens(s, 1)[j])

\* C6: the i-th argument returned is the map value of the named token that
\* stood, in the original text, where the i-th positional marker stands in
\* the rewritten text (read on texts that hold no marker of their own and no
\* token that is a prefix of another, so that the markers of the rewritten
\* text are exactly the mapped occurrences).
C6_ArgsFollowOccurrenceOrder ==
    (BindDone /\ CountMarkers(sqlText) = 0 /\ NoPrefixedToken(sqlText))
        => bound.params = ArgsInOccurrenceOrder(sqlText, parameters.map)

\* C7: the number of positional markers of the rewritten text equals the
\* number of arguments, and both equal the number of occurrences in the
\* original text of the named tokens whose names are keys of the map (read
\* on texts that hold no marker of their own).
C7_MarkersArgsOccurrencesAgree ==
    (BindDone /\ CountMarkers(sqlText) = 0)
        => /\ CountMarkers(bound.query) = Len(bound.params)
           /\ Len(bound.params) = Len(MappedTokens(sqlText, parameters.map))

\* C8: every named token whose name is no key of the map stands unchanged in
\* the rewritten text and contributes no argument, also when a key of the map
\* is a prefix of its name.
C8_UnmappedTokensUntouched ==
    BindDone
        => /\ UnmappedTokens(bound.query, parameters.map)
                = UnmappedTokens(sqlText, parameters.map)
           /\ Len(bound.params) <= Len(MappedTokens(sqlText, parameters.map))

(***************************************************************************)
(* Notions for the engine's claims, read off a call's record.              *)
(***************************************************************************)
Done(k) == k.pc = "done"

IsTransaction(k) == k.op = "transaction"

\* the positions of the log that hold the driver call cmd
LogOf(k, cmd) == { i \in 1..Len(k.log) : k.log[i].cmd = cmd }

Made(k, cmd) == LogOf(k, cmd) # {}

Succeeded(k, cmd) == \E i \in LogOf(k, cmd) : k.log[i].st = "ok"

Failed(k, cmd) == \E i \in LogOf(k, cmd) : k.log[i].st = "failed"

\* some callback invocation of the call threw
CallbackThrew(k) == \E i \in 1..Len(k.cbLog) : k.cbLog[i].threw

ReturnedValue(k, v) == k.outcome = [kind |-> "return", value |-> v]

\* the connections held by the calls in flight
HeldConns == { calls[c].conn : c \in { d \in Calls : calls[d].pc = "running" /\ calls[d].conn # 0 } }

\* C1: a transaction call on a ready pool in which the execution of an entry
\* raises a driver error never issues COMMIT, issues ROLLBACK on the
\* connection it checked out, and returns {success: false, results: []}
\* (read on calls whose callback, if any, returned normally).
C1_FailedEntryRollsBackAndReturnsFailure ==
    \A c \in Calls :
        (IsTransaction(calls[c]) /\ calls[c].ready /\ Failed(calls[c], "connection.execute")
            /\ ~CallbackThrew(calls[c]))
        => /\ ~Made(calls[c], "COMMIT")
           /\ Done(calls[c]) =>
                /\ \E i \in LogOf(calls[c], "ROLLBACK") : calls[c].log[i].conn = calls[c].conn
                /\ ReturnedValue(calls[c], TxResult(FALSE, <<>>))

\* C2: every connection a transaction call checks out is released exactly
\* once before the call completes, on every exit path, and the connections
\* checked out of the pool are exactly those held by calls still in flight:
\* none once all calls have completed.
C2_ConnectionReleasedExactlyOnce ==
    /\ \A c \in Calls :
          IsTransaction(calls[c]) =>
             calls[c].released = IF Done(calls[c]) /\ calls[c].conn # 0 THEN 1 ELSE 0
    /\ checkedOut = HeldConns

\* C2's case: a transaction call has completed by an error of ROLLBACK
\* itself, and its connection is back in the pool
C2_Witness ==
    \E c \in Calls :
        /\ IsTransaction(calls[c]) /\ Done(calls[c])
        /\ Failed(calls[c], "ROLLBACK")
        /\ calls[c].conn # 0 /\ calls[c].released = 1
        /\ checkedOut = {}

\* C3: if ROLLBACK itself throws while a failed entry is handled, the call
\* still completes with {success: false, results: []}, invokes the callback
\* with (false, []), and the rollback error does not reach the caller.
C3_RollbackErrorDoesNotMask ==
    \A c \in Calls :
        (IsTransaction(calls[c]) /\ Done(calls[c])
            /\ Failed(calls[c], "connection.execute") /\ Failed(calls[c], "ROLLBACK"))
        => /\ ReturnedValue(calls[c], TxResult(FALSE, <<>>))
           /\ calls[c].cb => /\ Len(calls[c].cbLog) = 1
                             /\ calls[c].cbLog[1].args = TxResult(FALSE, <<>>)

\* the pool was not ready at the call, or the driver threw
PoolOrDriverFailure(k) ==
    ~k.ready \/ \E i \in 1..Len(k.log) : k.log[i].st = "failed"

\* C4: query, fetchSingle, fetchScalar, insert, update and batch, whenever
\* the pool is not ready or the driver throws, do not throw or reject and
\* return their zero value.
C4_FailSoftZeroValue ==
    \A c \in Calls :
        (Done(calls[c]) /\ calls[c].outer = "none"
            /\ calls[c].op \in SimpleOps \cup {"batch"}
            /\ PoolOrDriverFailure(calls[c]))
        => ReturnedValue(calls[c], Zero(calls[c].op))

\* the zero value of a call: of the operation its body ran, and null for
\* executePrepared that found no stored text
ZeroOfCall(k) == IF k.op = "none" THEN Null ELSE Zero(k.op)

\* C5: any operation invoked while ready() is false returns its zero value
\* without any call to the driver.
C5_NotReadyReturnsZeroWithoutDriver ==
    \A c \in Calls :
        (calls[c].pc # "idle" /\ ~calls[c].ready)
        => /\ calls[c].log = <<>>
           /\ calls[c].conn = 0
           /\ Done(calls[c])
           /\ ReturnedValue(calls[c], ZeroOfCall(calls[c]))

\* C9: within a transaction call BEGIN is the first command on the checked
\* out connection; the entries are executed on that connection, never by
\* pool.execute, in list order, entry i+1 only after entry i has succeeded;
\* COMMIT is issued only after the last entry has succeeded; one command is
\* in flight at a time.
C9_TransactionOrder ==
    \A c \in Calls :
        IsTransaction(calls[c]) =>
           \A j \in 1..Len(calls[c].log) :
              LET e == calls[c].log[j]
                  prev == calls[c].log[j - 1]
              IN  /\ e.cmd # "pool.execute"
                  /\ e.st = "pending" => j = Len(calls[c].log)
                  /\ e.cmd = "getConnection" <=> j = 1
                  /\ j > 1 => e.conn = calls[c].conn /\ e.conn # 0
                  /\ j = 2 => e.cmd = "BEGIN"
                  /\ e.cmd = "BEGIN" => j = 2 /\ prev.st = "ok"
                  /\ e.cmd = "connection.execute" =>
                        /\ e.entry \in 1..calls[c].n
                        /\ prev.st = "ok"
                        /\ IF e.entry = 1 THEN prev.cmd = "BEGIN"
                           ELSE prev.cmd = "connection.execute" /\ prev.entry = e.entry - 1
                  /\ e.cmd = "COMMIT" =>
                        /\ prev.st = "ok"
                        /\ IF calls[c].n = 0 THEN prev.cmd = "BEGIN"
                           ELSE prev.cmd = "connection.execute" /\ prev.entry = calls[c].n

\* C9's case: a transaction of MaxEntries entries has committed
C9_Witness ==
    \E c \in Calls :
        /\ IsTransaction(calls[c]) /\ Done(calls[c])
        /\ calls[c].n = MaxEntries
        /\ Succeeded(calls[c], "COMMIT")
        /\ Cardinality(LogOf(calls[c], "connection.execute")) = MaxEntries

\* every entry of the call executed without error and COMMIT completed
AllEntriesCommitted(k) ==
    /\ \A i \in 1..k.n :
          \E j \in LogOf(k, "connection.execute") : k.log[j].entry = i /\ k.log[j].st = "ok"
    /\ Succeeded(k, "COMMIT")

\* the call returned { success: true, results }
ReturnsSuccess(k) ==
    /\ k.outcome.kind = "return"
    /\ k.outcome.value.t = "tx"
    /\ k.outcome.value.success

\* C10: a transaction call returns success: true if and only if every entry
\* executed without error and COMMIT completed on its connection, and when
\* it returns success: false its changes were not committed, and rolled back
\* if a transaction had been begun.
C10_SuccessIffCommitted ==
    \A c \in Calls :
        (IsTransaction(calls[c]) /\ Done(calls[c]))
        => /\ ReturnsSuccess(calls[c]) <=> AllEntriesCommitted(calls[c])
           /\ ReturnedValue(calls[c], TxResult(FALSE, <<>>))
                => /\ ~Succeeded(calls[c], "COMMIT")
                   /\ Succeeded(calls[c], "BEGIN") => Succeeded(calls[c], "ROLLBACK")

\* C11: batch executes its entries one at a time, in list order, through
\* pool.execute; if entry k throws, no entry after k is executed, no
\* rollback is issued for the entries before k, and batch returns [].
C11_BatchStopsAtFirstFailure ==
    \A c \in Calls :
        calls[c].op = "batch" =>
           /\ \A j \in 1..Len(calls[c].log) :
                 /\ calls[c].log[j].cmd = "pool.execute"
                 /\ calls[c].log[j].entry = j
                 /\ j < Len(calls[c].log) => calls[c].log[j].st = "ok"
           /\ (Done(calls[c]) /\ Failed(calls[c], "pool.execute"))
                 => ReturnedValue(calls[c], List(<<>>))

\* C12: the entries of a batch are independent: when one entry fails, the
\* entries after it in the list are still executed, so a completed batch
\* has executed every one of its entries.
C12_BatchEntriesIndependent ==
    \A c \in Calls :
        (calls[c].op = "batch" /\ Done(calls[c]) /\ calls[c].ready)
        => \A i \in 1..calls[c].n :
              \E j \in LogOf(calls[c], "pool.execute") : calls[c].log[j].entry = i

\* C13: every operation called with a completion callback invokes it exactly
\* once per call, with the outcome the call returns: never twice, also when
\* the callback throws and when execute / executePrepared hand the callback
\* to an inner operation.
C13_CallbackExactlyOnce ==
    \A c \in Calls :
        (Done(calls[c]) /\ calls[c].cb)
        => /\ Len(calls[c].cbLog) = 1
           /\ ReturnedValue(calls[c], calls[c].cbLog[1].args)

\* the pool.execute calls that completed successfully, and those that threw
Successes == SelectSeq(Executed, LAMBDA e : e.success)

Failures == SelectSeq(Executed, LAMBDA e : ~e.success)

StatementThrows(c, cmd) ==
    /\ Pending(calls[c], cmd)
    /\ calls'[c].log[Len(calls[c].log)].st = "failed"

\* C15: every driver exception raised while a statement executes increments
\* failedQueries by exactly one, whether the statement ran through
\* pool.execute or on the checked-out connection of a transaction.
C15_EveryDriverErrorCounted ==
    [][\A c \in Calls :
          (StatementThrows(c, "pool.execute") \/ StatementThrows(c, "connection.execute"))
          => stats'.failedQueries = stats.failedQueries + 1]_vars

\* C16: totalQueries counts all queries executed and failedQueries those of
\* them that failed, so in every reachable state getStats() reports
\* failedQueries <= totalQueries, and the success rate
\* (totalQueries - failedQueries) / totalQueries is never negative.
C16_FailedAtMostTotal ==
    /\ getStats.failedQueries <= getStats.totalQueries
    /\ getStats.totalQueries > 0 => getStats.totalQueries - getStats.failedQueries >= 0

\* C17: ready() is false from the start until initialize() has built the
\* driver pool and its probe has succeeded; when pool construction or the
\* probe throws, initialize() returns false, ready() is false in every later
\* state, and initialize() is not run again.
C17_ReadyOnlyAfterProbe ==
    /\ [](/\ initPc \in {"scheduled", "probing", "failed"} => ~isReady
          /\ isReady => driverPool # "null")
    /\ [][initPc = "failed"
            => /\ initPc' = "failed"
               /\ ~isReady'
               /\ driverPool' # driverPool => driverPool' = "ended"]_vars

\* C17's case: the probe has thrown, and an operation called afterwards has
\* found the pool not ready
C17_Witness ==
    /\ initPc = "failed"
    /\ driverPool = "open"
    /\ \E c \in Calls : Done(calls[c]) /\ ~calls[c].ready /\ calls[c].log = <<>>

\* C18: close() leaves ready() false and is idempotent: once a close() has
\* ended the driver pool and completed, another close() call changes no
\* state and makes no further call to the driver (no pool.end() is awaited
\* again).
C18_CloseIdempotent ==
    /\ []((closePc = "done" /\ driverPool = "ended") => ~isReady)
    /\ [][(closed /\ closePc = "done" /\ driverPool = "ended")
            => /\ closePc' = "done"
               /\ driverPool' = "ended"
               /\ isReady' = isReady]_vars

\* C19: the pool has no transition out of Closed: once a close() call has
\* completed, ready() is false in every later state, also when close() was
\* invoked while initialize() was awaiting its probe connection.
C19_ClosedIsFinal == closed => ~isReady

\* the step in which call c sends a statement to the driver through
\* pool.execute
SendsThroughPool(c) ==
    /\ Len(calls'[c].log) > Len(calls[c].log)
    /\ Last(calls'[c].log).cmd = "pool.execute"

\* C20: pool.execute sends no statement to the driver when ready() is false
\* at the moment of the call; the check is made with each call, so when the
\* pool is closed between two entries of a running batch the later entries
\* are not sent to the driver.
C20_NoExecuteWhileNotReady ==
    [][\A c \in Calls : SendsThroughPool(c) => isReady]_vars


\* C21: every prepareQuery call returns an id no earlier prepareQuery call
\* returned, also when the texts are the same: the ids issued so far are
\* pairwise distinct, and a call that issues an id issues one that was
\* neither issued nor registered before.
C21_PreparedIdsDistinct ==
    /\ [](\A i, j \in 1..Len(issued) : issued[i].id = issued[j].id => i = j)
    /\ [][Len(issued') > Len(issued) =>
             /\ issued' = Append(issued, Last(issued'))
             /\ \A i \in 1..Len(issued) : issued[i].id # Last(issued').id
             /\ Last(issued').id \notin DOMAIN preparedQueries
             /\ Last(issued').id \in DOMAIN preparedQueries']_vars

\* two prepareQuery calls with the same text have returned, with an
\* executePrepared call in flight between them
C21_Witness ==
    /\ Len(issued) = 2
    /\ preparedQueries[issued[1].id] = preparedQueries[issued[2].id]
    /\ \E c \in Calls : calls[c].outer = "executePrepared" /\ Pending(calls[c], "pool.execute")

\* an executePrepared call made with an id no prepareQuery call has returned
UnknownId(k) == k.outer = "executePrepared" /\ k.err = "UnknownHandle"

\* C22: executePrepared called with an id that no prepareQuery call has
\* returned returns null without throwing, issues no call to the driver, and
\* leaves the registry and the pool statistics unchanged.
C22_UnknownIdReturnsNull ==
    [][\A c \in Calls :
          (calls[c].pc = "idle" /\ UnknownId(calls'[c]))
          => /\ ReturnedValue(calls'[c], Null)
             /\ calls'[c].log = <<>>
             /\ UNCHANGED <<preparedQueries, queryIdCounter, issued, stats, emitted>>]_vars

\* C24: executePrepared returns null whenever the execution of the prepared
\* statement fails (pool not ready or driver error), not only when the query
\* id is unknown.
C24_PreparedFailureReturnsNull ==
    \A c \in Calls :
        (Done(calls[c]) /\ calls[c].outer = "executePrepared" /\ PoolOrDriverFailure(calls[c]))
        => ReturnedValue(calls[c], Null)

\* whether each invocation of call k's callback threw
ThrewOf(k) == [i \in 1..3 |-> i <= Len(k.cbLog) /\ k.cbLog[i].threw]

\* the settled call that the operation of call k reaches when it is called
\* directly (outer = "none") or through `outer`, under the readiness, the
\* driver behaviour and the callback behaviour that call k met
Under(k, outer) ==
    LET ts == ThrewOf(k)
        k0 == [IdleCall EXCEPT !.pc = "running", !.op = k.op, !.outer = outer, !.cb = k.cb,
                               !.ready = k.ready, !.sql = k.sql]
        k1 == [k0 EXCEPT !.log = <<[k.log[1] EXCEPT !.st = "pending", !.res = NoValue]>>]
    IN  IF ~k.ready THEN OuterTail(CatchSimple(k0, "PoolNotReady", ts), ts)
        ELSE IF k.log[1].st = "ok"
        THEN OuterTail(TryTail(Settle(k1, "ok", k.log[1].res),
                               Shape(k.op, k.log[1].res), ts), ts)
        ELSE OuterTail(CatchSimple(Settle(k1, "failed", NoValue), "driver", ts), ts)

\* the same value returned, the same callback invocations, the same driver
\* calls
SameBehaviour(k, m) == k.outcome = m.outcome /\ k.cbLog = m.cbLog /\ k.log = m.log

IsSelect(sqlQuery) == QueryType(sqlQuery) = <<"S", "E", "L", "E", "C", "T">>

\* C23: under the same driver behaviour executePrepared(prepareQuery(s), p)
\* returns the same value, invokes the callback with the same arguments and
\* issues the same driver calls as execute(s, p); for a SELECT statement this
\* is the behaviour of query(s, p).
C23_PreparedBehavesAsExecuteAndQuery ==
    \A c \in Calls :
        (Done(calls[c]) /\ calls[c].outer = "executePrepared" /\ ~UnknownId(calls[c]))
        => /\ SameBehaviour(calls[c], Under(calls[c], "execute"))
           /\ IsSelect(calls[c].sql) => SameBehaviour(calls[c], Under(calls[c], "none"))

\* the number of blanks text s starts with
LeadLen(s) ==
    CHOOSE n \in 0..Len(s) :
        /\ \A i \in 1..n : s[i] = " "
        /\ n < Len(s) => s[n + 1] # " "

\* the length of the run of word characters of s that follows its leading
\* blanks
FirstRunLen(s) ==
    CHOOSE m \in 0..(Len(s) - LeadLen(s)) :
        /\ \A i \in 1..m : s[LeadLen(s) + i] \in WordChars
        /\ LeadLen(s) + m < Len(s) => s[LeadLen(s) + m + 1] \notin WordChars

\* whether the first run of word characters of s is the keyword kw (given
\* in upper case), upper and lower case letters taken as equal
StartsWithKeyword(s, kw) ==
    /\ FirstRunLen(s) = Len(kw)
    /\ \A i \in 1..Len(kw) :
          \/ s[LeadLen(s) + i] = kw[i]
          \/ \E p \in LetterPairs : p[1] = s[LeadLen(s) + i] /\ p[2] = kw[i]

\* the operation the dispatch is specified to choose for text s
ExpectedRoute(s) ==
    IF StartsWithKeyword(s, <<"S", "E", "L", "E", "C", "T">>) THEN "query"
    ELSE IF StartsWithKeyword(s, <<"I", "N", "S", "E", "R", "T">>) THEN "insert"
    ELSE IF \/ StartsWithKeyword(s, <<"U", "P", "D", "A", "T", "E">>)
            \/ StartsWithKeyword(s, <<"D", "E", "L", "E", "T", "E">>) THEN "update"
    ELSE "query"

\* whether text s starts with none of the four keywords
NoKeyword(s) ==
    \A kw \in { <<"S", "E", "L", "E", "C", "T">>, <<"I", "N", "S", "E", "R", "T">>,
                <<"U", "P", "D", "A", "T", "E">>, <<"D", "E", "L", "E", "T", "E">> } :
        ~StartsWithKeyword(s, kw)

DriverResult(k) == Last(k.log).res

StatementSucceeded(k) ==
    Done(k) /\ k.op \in SimpleOps /\ k.log # <<>> /\ Last(k.log).st = "ok"

\* the specified function of the driver result r for operation op; the
\* columns of a row stand in SELECT order
Specified(op, r) ==
    CASE op = "query" -> r
      [] op = "fetchSingle" ->
            IF r.t = "list" /\ r.list # <<>> THEN RowValue(Head(r.list)) ELSE Null
      [] op = "fetchScalar" ->
            IF r.t = "list" /\ r.list # <<>> THEN Num(Head(Head(r.list))[2]) ELSE Null
      [] op = "insert" ->
            IF r.t = "header" /\ r.insertId # 0 THEN Num(r.insertId) ELSE Num(0)
      [] op = "update" ->
            IF r.t = "header" /\ r.affectedRows # 0 THEN Num(r.affectedRows) ELSE Num(0)

\* C27: on success each operation returns the specified function of the
\* driver result: query all rows in driver order; fetchSingle the first row,
\* or null when there are no rows; fetchScalar the value of the first column
\* of the first row, or null when there are no rows; insert the driver's
\* insertId, or 0 when none is reported; update the driver's affectedRows,
\* or 0 when none is reported.
C27_ShapeOfDriverResult ==
    \A c \in Calls :
        (StatementSucceeded(calls[c]) /\ calls[c].outer = "none")
        => ReturnedValue(calls[c], Specified(calls[c].op, DriverResult(calls[c])))

\* the command that executes an entry of call k
EntryCmd(k) == IF k.op = "batch" THEN "pool.execute" ELSE "connection.execute"

\* every entry of the call was executed by the driver without error (and,
\* for a transaction, COMMIT completed)
EveryEntrySucceeded(k) ==
    /\ k.ready
    /\ \A i \in 1..k.n :
          \E j \in LogOf(k, EntryCmd(k)) : k.log[j].entry = i /\ k.log[j].st = "ok"
    /\ k.op = "transaction" => Succeeded(k, "COMMIT")

\* what the driver resolved the i-th entry of call k with
ResultOfEntry(k, i) ==
    k.log[CHOOSE j \in LogOf(k, EntryCmd(k)) : k.log[j].entry = i /\ k.log[j].st = "ok"].res

\* the list batch returns, or transaction returns in results
ResultsReturned(k) ==
    IF k.outcome.kind # "return" THEN NoValue
    ELSE IF k.op = "batch" /\ k.outcome.value.t = "list" THEN k.outcome.value.list
    ELSE IF k.op = "transaction" /\ k.outcome.value.success THEN k.outcome.value.results
    ELSE NoValue

\* C28: when every entry succeeds, batch returns, and transaction returns in
\* results, a list with exactly one driver result per entry, the i-th result
\* being the result of the i-th entry.
C28_OneResultPerEntryInOrder ==
    \A c \in Calls :
        (Done(calls[c]) /\ calls[c].op \in {"batch", "transaction"}
            /\ EveryEntrySucceeded(calls[c]))
        => ResultsReturned(calls[c]) = [i \in 1..calls[c].n |-> ResultOfEntry(calls[c], i)]

SlowQueryEvents == SelectSeq(emitted, LAMBDA e : e.name = "ingenium.sql:SlowQuery")

\* the events a step has appended
NewEvents == SubSeq(emitted', Len(emitted) + 1, Len(emitted'))

\* C29: slowQueries is incremented, and one SlowQuery notification carrying
\* the query, the duration and the parameters of the call is emitted, exactly
\* when a successful pool.execute call has a duration strictly greater than
\* 150 ms; in every reachable state slowQueries equals the number of
\* SlowQuery notifications emitted and slowQueries <= totalQueries.
C29_SlowQueriesExactlyAboveThreshold ==
    /\ [](/\ stats.slowQueries = Len(SlowQueryEvents)
          /\ stats.slowQueries <= stats.totalQueries
          /\ stats.slowQueries = Cardinality({ i \in 1..Len(Successes) :
                                                 Successes[i].duration > 150 }))
    /\ [][\A c \in Calls :
            Pending(calls[c], "pool.execute") /\ ~Pending(calls'[c], "pool.execute")
            => LET done == Last(NewEvents)
               IN  /\ done.name = "ig:sql:queryExecuted"
                   /\ done.query = QueryOf(c)
                   /\ IF done.success /\ done.duration > 150
                      THEN /\ stats'.slowQueries = stats.slowQueries + 1
                           /\ NewEvents = <<[done EXCEPT !.name = "ingenium.sql:SlowQuery"],
                                            done>>
                      ELSE /\ stats'.slowQueries = stats.slowQueries
                           /\ NewEvents = <<done>>]_vars

\* a query of exactly 150 ms and a slower one have completed
C29_Witness ==
    /\ \E i \in 1..Len(Successes) : Successes[i].duration = 150
    /\ stats.slowQueries = 1
    /\ stats.totalQueries = 2

\* the sum of the durations of the successful calls, and the largest of them
RECURSIVE SumOfDurations(_)
SumOfDurations(evs) ==
    IF evs = <<>> THEN 0 ELSE Head(evs).duration + SumOfDurations(Tail(evs))

MaxDuration(evs) ==
    CHOOSE d \in {0} \cup { evs[i].duration : i \in 1..Len(evs) } :
        \A i \in 1..Len(evs) : evs[i].duration <= d

BindMade == bound # NoValue

\* parameters is the object {}: an object without own properties
IsEmptyObject(p) == p.kind = "map" /\ DOMAIN p.map = {}

\* C31: processParameters(sql, list) returns exactly (sql, list) for every
\* SQL text and every positional list, and processParameters(sql, null) and
\* processParameters(sql, {}) both return (sql, []) for every SQL text,
\* texts with @name tokens included.
C31_ListsPassThroughNullAndEmptyGiveNoArgs ==
    BindMade =>
        /\ parameters.kind = "list" =>
              bound = [query |-> sqlText, params |-> parameters.list]
        /\ (parameters.kind = "null" \/ IsEmptyObject(parameters)) =>
              bound = [query |-> sqlText, params |-> <<>>]

\* C31's case: the empty object has been bound to a text that holds two
\* @name tokens, and a non-empty list to a text that holds one
C31_Witness ==
    /\ BindMade
    /\ \/ IsEmptyObject(parameters) /\ Len(MatchTokens(sqlText, 1)) >= 2
       \/ /\ parameters.kind = "list" /\ parameters.list # <<>>
          /\ MatchTokens(sqlText, 1) # <<>>

(***************************************************************************)
(* The pool under any configuration: its start, update calls without a     *)
(* callback and its close, with getStats() readable in every state.        *)
(***************************************************************************)
InitConf ==
    /\ sqlText = <<>>
    /\ parameters = [kind |-> "null"]
    /\ bound = NoValue
    /\ ClassifyStart
    /\ config \in Configs
    /\ waiter = IdleWaiter
    /\ flights = [f \in Flights |-> IdleFlight]
    /\ stats = NewStats
    /\ emitted = <<>>
    /\ closed = FALSE
    /\ isReady = FALSE
    /\ driverPool = "null"
    /\ initPc = "scheduled"
    /\ closePc = "idle"
    /\ checkedOut = {}
    /\ calls = [c \in Calls |-> IdleCall]
    /\ preparedQueries = <<>>
    /\ queryIdCounter = 0
    /\ issued = <<>>

NextConf ==
    \/ InitializeStart
    \/ InitializeProbeReturns
    \/ InitializeProbeThrows
    \/ CloseStart
    \/ CloseEnd
    \/ \E c \in Calls :
          \/ CallSimple(c) /\ calls'[c].op = "update" /\ ~calls'[c].cb
          \/ PoolExecuteReturns(c)
          \/ PoolExecuteThrows(c)

SpecConf == InitConf /\ [][NextConf]_vars

\* the configurations that differ from cfg in the user or the password at most
SameButCredentials(cfg) ==
    { other \in Configs : [other EXCEPT !.user = cfg.user, !.password = cfg.password] = cfg }

Draining == closePc = "ending"

\* the step in which an operation is invoked in caller slot c
Invoked(c) == calls[c].pc = "idle" /\ calls'[c].pc # "idle"

\* C33: from the moment close() is invoked, ready() returns false: no
\* operation invoked while the driver pool is being drained passes the
\* readiness check and sends a statement to the driver.
C33_NotReadyWhileDraining ==
    /\ [](Draining => ~isReady)
    /\ [][Draining =>
            \A c \in Calls :
               Invoked(c) => ~calls'[c].ready /\ ~SendsThroughPool(c)]_vars

\* the call has handed its connection back: connection.release() was called
Released(k) == k.released > 0

\* C34: transaction() never returns a connection to the pool while a
\* transaction begun on it is still open: whenever release is called after
\* BEGIN succeeded, COMMIT or ROLLBACK has completed successfully on that
\* connection.
C34_NoReleaseWithOpenTransaction ==
    \A c \in Calls :
        (IsTransaction(calls[c]) /\ Released(calls[c]) /\ Succeeded(calls[c], "BEGIN"))
        => \/ \E i \in LogOf(calls[c], "COMMIT") :
                 calls[c].log[i].st = "ok" /\ calls[c].log[i].conn = calls[c].conn
           \/ \E i \in LogOf(calls[c], "ROLLBACK") :
                 calls[c].log[i].st = "ok" /\ calls[c].log[i].conn = calls[c].conn

(***************************************************************************)
(* pool.execute called side by side: each call runs to its await, and the  *)
(* code after the await (stats, events) runs when the driver settles it,   *)
(* in any order among the calls in flight.                                 *)
(***************************************************************************)
\* the calls of pool.execute awaiting the driver
InFlight == { f \in Flights : flights[f].pc = "pending" }

\* pool.execute(query, parameters) is called: with no driver pool
\* this.pool.execute throws at once and the catch block runs; otherwise the
\* call awaits the driver
ExecuteCalled(f) ==
    /\ flights[f].pc = "idle"
    /\ IF driverPool = "null"
       THEN /\ flights' = [flights EXCEPT ![f] = [pc |-> "done", open |-> FALSE,
                                                 success |-> FALSE, over |-> InFlight]]
            /\ stats' = StatsOnFailure(stats)
            /\ emitted' = EmitOnFailure(emitted, f)
       ELSE /\ flights' = [flights EXCEPT ![f] = [pc |-> "pending",
                                                 open |-> (driverPool = "open"),
                                                 success |-> FALSE, over |-> InFlight]]
            /\ UNCHANGED statVars
    /\ UNCHANGED <<bindVars, classVars, config, waiter, closed, isReady, driverPool, initPc, closePc,
                   checkedOut, calls, preparedQueries, queryIdCounter, issued>>

\* the driver resolves the call: the rest of the try block
ExecuteDriverResolves(f) ==
    /\ flights[f].pc = "pending"
    /\ flights[f].open
    /\ flights' = [flights EXCEPT ![f].pc = "done", ![f].success = TRUE]
    /\ \E duration \in Durations :
          /\ stats' = StatsOnSuccess(stats, duration)
          /\ emitted' = EmitOnSuccess(emitted, f, duration)
    /\ UNCHANGED <<bindVars, classVars, config, waiter, closed, isReady, driverPool, initPc, closePc,
                   checkedOut, calls, preparedQueries, queryIdCounter, issued>>

\* the driver rejects the call: the catch block
ExecuteDriverRejects(f) ==
    /\ flights[f].pc = "pending"
    /\ flights' = [flights EXCEPT ![f].pc = "done", ![f].success = FALSE]
    /\ stats' = StatsOnFailure(stats)
    /\ emitted' = EmitOnFailure(emitted, f)
    /\ UNCHANGED <<bindVars, classVars, config, waiter, closed, isReady, driverPool, initPc, closePc,
                   checkedOut, calls, preparedQueries, queryIdCounter, issued>>

NextRace ==
    \/ InitializeStart
    \/ InitializeProbeReturns
    \/ InitializeProbeThrows
    \/ CloseStart
    \/ CloseEnd
    \/ \E f \in Flights :
          \/ ExecuteCalled(f)
          \/ ExecuteDriverResolves(f)
          \/ ExecuteDriverRejects(f)

SpecRace == Init /\ [][NextRace]_vars

\* the calls of pool.execute that have completed
Completed == { f \in Flights : flights[f].pc = "done" }

\* the positions of the ig:sql:queryExecuted events of call f
EventsOf(f) == { i \in 1..Len(Executed) : Executed[i].query = f }

NextReg ==
    \/ InitializeStart
    \/ InitializeProbeReturns
    \/ InitializeProbeThrows
    \/ CloseStart
    \/ CloseEnd
    \/ PrepareQuery
    \/ \E c \in Calls :
          \/ CallExecutePrepared(c) /\ ~calls'[c].cb
          \/ PoolExecuteReturns(c)
          \/ PoolExecuteThrows(c)

SpecReg == Init /\ [][NextReg]_vars

\* C36: once prepareQuery(s) has returned id h, h resolves to exactly s in
\* every later state: no operation removes or overwrites a registry entry,
\* and the number of registry entries equals the number of prepareQuery
\* calls made so far.
C36_RegistryEntriesPermanent ==
    /\ \A i \in 1..Len(issued) :
          /\ issued[i].id \in DOMAIN preparedQueries
          /\ preparedQueries[issued[i].id] = issued[i].query
    /\ Cardinality(DOMAIN preparedQueries) = Len(issued)

\* C36's case: after two prepareQuery calls with different texts, an
\* executePrepared call on the first id has failed in the driver, and the
\* pool has been closed
C36_Witness ==
    /\ Len(issued) = 2
    /\ issued[1].query # issued[2].query
    /\ closed
    /\ \E c \in Calls :
          /\ calls[c].outer = "executePrepared"
          /\ calls[c].sql = issued[1].query
          /\ Failed(calls[c], "pool.execute")

(***************************************************************************)
(* ig.sql.AwaitReady of the Lua wrapper, polling the pool while it starts  *)
(* and closes.  The wrapper exists in two copies: _handler.lua waits a     *)
(* fixed interval, unnamed/part_009 doubles the interval up to a cap.      *)
(***************************************************************************)
HandlerCopies == {"_handler.lua", "unnamed/part_009"}

\* local maxWait = timeout or 30000
DefaultTimeout == 30000

\* the timeouts callers pass, in milliseconds; not given is nil
Timeouts ==
    { [given |-> FALSE, ms |-> 0] } \cup { [given |-> TRUE, ms |-> n] : n \in {0, 120, 1000} }

MaxWaitOf(timeout) == IF timeout.given THEN timeout.ms ELSE DefaultTimeout

\* local interval = 100 (_handler.lua), local interval = 50 (part_009)
FixedInterval == 100

StartInterval == 50

\* local maxInterval = 500
MaxInterval == 500

FirstInterval(copy) == IF copy = "_handler.lua" THEN FixedInterval ELSE StartInterval

Min(a, b) == IF a < b THEN a ELSE b

\* the interval after a wait: unchanged in _handler.lua; in part_009
\* if interval < maxInterval then interval = math.min(interval * 2, maxInterval)
NextInterval(copy, interval) ==
    IF copy = "_handler.lua" THEN interval
    ELSE IF interval < MaxInterval THEN Min(interval * 2, MaxInterval) ELSE interval

\* a loop that would go on while waited <= maxWait
KeepsPollingInclusive(ready, waited, maxWait) == ~ready /\ waited <= maxWait

\* while not ig.sql.IsReady() and waited < maxWait
KeepsPolling(ready, waited, maxWait) == ~ready /\ waited < maxWait

\* the loop test on the locals w, and return ig.sql.IsReady() when it fails
LoopTest(w) ==
    IF KeepsPolling(isReady, w.waited, w.maxWait)
    THEN [w EXCEPT !.pc = "waiting"]
    ELSE [w EXCEPT !.pc = "returned", !.result = isReady]

\* ig.sql.AwaitReady(timeout) is called: the locals and the first loop test
AwaitReadyCalled ==
    /\ waiter.pc = "idle"
    /\ \E copy \in HandlerCopies, timeout \in Timeouts :
          waiter' = LoopTest([IdleWaiter EXCEPT !.copy = copy,
                                                !.maxWait = MaxWaitOf(timeout),
                                                !.interval = FirstInterval(copy)])
    /\ UNCHANGED <<bindVars, classVars, config, flights, engineState>>

\* Citizen.Wait(interval) returns: waited = waited + interval, the next
\* interval, and the loop test again
WaitElapsed ==
    /\ waiter.pc = "waiting"
    /\ waiter' = LoopTest([waiter EXCEPT !.waited = @ + waiter.interval,
                                         !.lastWait = waiter.interval,
                                         !.polls = @ + 1,
                                         !.interval = NextInterval(waiter.copy, @)])
    /\ UNCHANGED <<bindVars, classVars, config, flights, engineState>>

NextWait ==
    \/ InitializeStart
    \/ InitializeProbeReturns
    \/ InitializeProbeThrows
    \/ CloseStart
    \/ CloseEnd
    \/ AwaitReadyCalled
    \/ WaitElapsed

\* the scheduler resumes the waiting coroutine when its Citizen.Wait is over
SpecWait == Init /\ [][NextWait]_vars /\ WF_vars(WaitElapsed)

\* the step is a loop test of AwaitReady
Polls == waiter' # waiter

\* C37: AwaitReady(timeout) always terminates: it stops polling as soon as
\* a poll observes IsReady() = true or the accumulated wait has reached
\* timeout (30000 ms when none is given), it returns the value of IsReady()
\* read at that moment, and the accumulated wait exceeds timeout by less
\* than one polling interval.
C37_AwaitReadyTerminates ==
    /\ (waiter.pc = "waiting") ~> (waiter.pc = "returned")
    /\ [][Polls =>
            /\ waiter'.pc = "returned" <=> (isReady \/ waiter'.waited >= waiter'.maxWait)
            /\ waiter'.pc = "returned" => waiter'.result = isReady]_vars
    /\ [](waiter.polls > 0 => waiter.waited - waiter.maxWait < waiter.lastWait)
    /\ [](waiter.polls = 0 => waiter.waited = 0)

\* C37's case: a call without a timeout, made before the pool was started,
\* has returned false after the default 30000 ms
C37_Witness ==
    /\ waiter.pc = "returned"
    /\ ~waiter.result
    /\ waiter.maxWait = DefaultTimeout
    /\ waiter.waited >= DefaultTimeout
    /\ waiter.polls > 1

\* the wait before the k-th poll under capped exponential backoff: 50, 100,
\* 200, 400, then 500
Backoff(k) == IF k >= 5 THEN MaxInterval ELSE StartInterval * Pow2(k - 1)

\* C38: AwaitReady polls with capped exponential backoff: the wait before
\* the k-th poll is 50 ms for k = 1, doubles after each poll (50, 100, 200,
\* 400) and is 500 ms from the fifth poll on; the interval never exceeds
\* 500 ms and never decreases.
C38_CappedExponentialBackoff ==
    /\ [](waiter.polls > 0 => waiter.lastWait = Backoff(waiter.polls))
    /\ [](waiter.interval <= MaxInterval)
    /\ [][waiter.pc = "waiting" => waiter'.interval >= waiter.interval]_vars
=============================================================================
